---- MODULE Spec2Model ----
(***************************************************************************)
(* fast-shard: key -> shard index by key-size tier, capability-ordered     *)
(* algorithm selection and digest modulo shard_count (src/src/lib.rs).     *)
(*                                                                         *)
(* Machine words are little-endian byte sequences (u64 = 8 bytes, u32 = 4  *)
(* bytes, __m128i = 16 bytes): the digests need all 64 bits and wrap.      *)
(***************************************************************************)
EXTENDS Integers, Sequences, FiniteSets, TLC

\* ------------------------------------------------------------------------
\* Word arithmetic on little-endian byte sequences
\* ------------------------------------------------------------------------

XorNib ==
  << << 0,  1,  2,  3,  4,  5,  6,  7,  8,  9, 10, 11, 12, 13, 14, 15>>,
     << 1,  0,  3,  2,  5,  4,  7,  6,  9,  8, 11, 10, 13, 12, 15, 14>>,
     << 2,  3,  0,  1,  6,  7,  4,  5, 10, 11,  8,  9, 14, 15, 12, 13>>,
     << 3,  2,  1,  0,  7,  6,  5,  4, 11, 10,  9,  8, 15, 14, 13, 12>>,
     << 4,  5,  6,  7,  0,  1,  2,  3, 12, 13, 14, 15,  8,  9, 10, 11>>,
     << 5,  4,  7,  6,  1,  0,  3,  2, 13, 12, 15, 14,  9,  8, 11, 10>>,
     << 6,  7,  4,  5,  2,  3,  0,  1, 14, 15, 12, 13, 10, 11,  8,  9>>,
     << 7,  6,  5,  4,  3,  2,  1,  0, 15, 14, 13, 12, 11, 10,  9,  8>>,
     << 8,  9, 10, 11, 12, 13, 14, 15,  0,  1,  2,  3,  4,  5,  6,  7>>,
     << 9,  8, 11, 10, 13, 12, 15, 14,  1,  0,  3,  2,  5,  4,  7,  6>>,
     <<10, 11,  8,  9, 14, 15, 12, 13,  2,  3,  0,  1,  6,  7,  4,  5>>,
     <<11, 10,  9,  8, 15, 14, 13, 12,  3,  2,  1,  0,  7,  6,  5,  4>>,
     <<12, 13, 14, 15,  8,  9, 10, 11,  4,  5,  6,  7,  0,  1,  2,  3>>,
     <<13, 12, 15, 14,  9,  8, 11, 10,  5,  4,  7,  6,  1,  0,  3,  2>>,
     <<14, 15, 12, 13, 10, 11,  8,  9,  6,  7,  4,  5,  2,  3,  0,  1>>,
     <<15, 14, 13, 12, 11, 10,  9,  8,  7,  6,  5,  4,  3,  2,  1,  0>> >>

\* a ^ b on bytes
Xor8(a, b) ==
  XorNib[(a \div 16) + 1][(b \div 16) + 1] * 16 + XorNib[(a % 16) + 1][(b % 16) + 1]

RECURSIVE XorW(_, _)
\* a ^ b on words of the same width
XorW(a, b) ==
  IF a = <<>> THEN <<>>
  ELSE <<Xor8(Head(a), Head(b))>> \o XorW(Tail(a), Tail(b))

RECURSIVE AddCarry(_, _, _)
AddCarry(a, b, c) ==
  IF a = <<>> THEN <<>>
  ELSE LET s == Head(a) + Head(b) + c
       IN  <<s % 256>> \o AddCarry(Tail(a), Tail(b), s \div 256)

\* a.wrapping_add(b) on words of the same width
AddW(a, b) == AddCarry(a, b, 0)

RECURSIVE NotW(_)
NotW(a) == IF a = <<>> THEN <<>> ELSE <<255 - Head(a)>> \o NotW(Tail(a))

RECURSIVE ZeroW(_)
\* the zero word of n bytes
ZeroW(n) == IF n = 0 THEN <<>> ELSE <<0>> \o ZeroW(n - 1)

RECURSIVE NatW(_, _)
\* the natural number v as a word of n bytes (v as usize/u64)
NatW(v, n) == IF n = 0 THEN <<>> ELSE <<v % 256>> \o NatW(v \div 256, n - 1)

\* a.wrapping_sub(b)
SubW(a, b) == AddCarry(a, NotW(b), 1)

RECURSIVE ColSum(_, _, _, _)
\* sum of a[i] * b[k + 1 - i] for i in i..k, within both words
ColSum(a, b, k, i) ==
  IF i > k \/ i > Len(a) THEN 0
  ELSE (IF k + 1 - i <= Len(b) THEN a[i] * b[k + 1 - i] ELSE 0)
       + ColSum(a, b, k, i + 1)

RECURSIVE MulCarry(_, _, _, _, _)
MulCarry(a, b, k, c, n) ==
  IF k > n THEN <<>>
  ELSE LET s == ColSum(a, b, k, 1) + c
       IN  <<s % 256>> \o MulCarry(a, b, k + 1, s \div 256, n)

\* the low n bytes of a * b
MulW(a, b, n) == MulCarry(a, b, 1, 0, n)

\* byte i (1-based) of a, zero beyond its width
ByteAt(a, i) == IF i >= 1 /\ i <= Len(a) THEN a[i] ELSE 0

Pow2(s) == CASE s = 0 -> 1 [] s = 1 -> 2 [] s = 2 -> 4 [] s = 3 -> 8
             [] s = 4 -> 16 [] s = 5 -> 32 [] s = 6 -> 64 [] s = 7 -> 128

RECURSIVE ShrFrom(_, _, _, _)
ShrFrom(a, q, s, i) ==
  IF i > Len(a) THEN <<>>
  ELSE <<((ByteAt(a, i + q) + (256 * ByteAt(a, i + q + 1))) \div Pow2(s)) % 256>>
       \o ShrFrom(a, q, s, i + 1)

\* a >> r (logical)
ShrW(a, r) == ShrFrom(a, r \div 8, r % 8, 1)

RECURSIVE ShlFrom(_, _, _, _)
ShlFrom(a, q, s, i) ==
  IF i > Len(a) THEN <<>>
  ELSE <<((((ByteAt(a, i - q) * 256) + ByteAt(a, i - q - 1)) * Pow2(s)) \div 256) % 256>>
       \o ShlFrom(a, q, s, i + 1)

\* a << r, truncated to the width of a
ShlW(a, r) == ShlFrom(a, r \div 8, r % 8, 1)

\* a.rotate_left(r)
RotlW(a, r) == AddW(ShlW(a, r), ShrW(a, 8 * Len(a) - r))

RECURSIVE Reverse(_)
\* byte swap
Reverse(a) == IF a = <<>> THEN <<>> ELSE Reverse(Tail(a)) \o <<Head(a)>>

RECURSIVE RemFrom(_, _, _, _)
RemFrom(a, n, i, r) ==
  IF i = 0 THEN r ELSE RemFrom(a, n, i - 1, (r * 256 + a[i]) % n)

\* the word a modulo the natural number n > 0, as a natural number
RemW(a, n) == RemFrom(a, n, Len(a), 0)

\* bytes o .. o + n - 1 (o counted from 0) of the byte sequence b
Read(b, o, n) == SubSeq(b, o + 1, o + n)

\* ------------------------------------------------------------------------
\* FNV-1a 64 (crate fnv: FnvHasher::default(), write, finish)
\* ------------------------------------------------------------------------

\* FnvHasher::default(): the 64-bit offset basis 0xcbf29ce484222325
FNV_OFFSET == <<37, 35, 34, 132, 228, 156, 242, 203>>
\* the 64-bit FNV prime 0x100000001b3
FNV_PRIME == <<179, 1, 0, 0, 0, 1, 0, 0>>

RECURSIVE FnvWrite(_, _, _, _)
\* Hasher::write over bytes[lo..hi], first to last: for each byte,
\* hash ^= byte; hash = hash.wrapping_mul(prime).  The range is split in the
\* middle, and the left half computed first (the test on its width is always
\* true), only to bound the evaluation depth; the byte order is the loop's.
FnvWrite(hash, bytes, lo, hi) ==
  IF lo > hi THEN hash
  ELSE IF lo = hi
       THEN MulW(<<Xor8(hash[1], bytes[lo])>> \o Tail(hash), FNV_PRIME, 8)
       ELSE LET mid == (lo + hi) \div 2
                left == FnvWrite(hash, bytes, lo, mid)
            IN  IF Len(left) = 8 THEN FnvWrite(left, bytes, mid + 1, hi) ELSE left

\* hasher.write(key); hasher.finish()
fnv1a_64(key) == FnvWrite(FNV_OFFSET, key, 1, Len(key))

\* ------------------------------------------------------------------------
\* XXH3-64, seed 0, default secret (crate xxhash-rust: xxh3::xxh3_64)
\* ------------------------------------------------------------------------

kSecret ==
  << 184, 254, 108,  57,  35, 164,  75, 190, 124,   1, 129,  44, 247,  33, 173,  28,
     222, 212, 109, 233, 131, 144, 151, 219, 114,  64, 164, 164, 183, 179, 103,  31,
     203, 121, 230,  78, 204, 192, 229, 120, 130,  90, 208, 125, 204, 255, 114,  33,
     184,   8,  70, 116, 247,  67,  36, 142, 224,  53, 144, 230, 129,  58,  38,  76,
      60,  40,  82, 187, 145, 195,   0, 203, 136, 208, 101, 139,  27,  83,  46, 163,
     113, 100,  72, 151, 162,  13, 249,  78,  56,  25, 239,  70, 169, 222, 172, 216,
     168, 250, 118,  63, 227, 156,  52,  63, 249, 220, 187, 199, 199,  11,  79,  29,
     138,  81, 224,  75, 205, 180,  89,  49, 200, 159, 126, 201, 217, 120, 115, 100,
     234, 197, 172, 131,  52, 211, 235, 195, 197, 129, 160, 255, 250,  19,  99, 235,
      23,  13, 221,  81, 183, 240, 218,  73, 211,  22,  85,  38,  41, 212, 104, 158,
      43,  22, 190,  88, 125,  71, 161, 252, 143, 248, 184, 209, 122, 208,  49, 206,
      69, 203,  58, 143, 149,  22,   4,  40, 175, 215, 251, 202, 187,  75,  64, 126 >>

PRIME32_1 == <<177, 121, 55, 158, 0, 0, 0, 0>>
PRIME32_2 == <<119, 202, 235, 133, 0, 0, 0, 0>>
PRIME32_3 == <<61, 174, 178, 194, 0, 0, 0, 0>>
PRIME64_1 == <<135, 202, 235, 133, 177, 121, 55, 158>>
PRIME64_2 == <<79, 235, 212, 39, 61, 174, 178, 194>>
PRIME64_3 == <<249, 121, 55, 158, 177, 103, 86, 22>>
PRIME64_4 == <<99, 174, 178, 194, 119, 202, 235, 133>>
PRIME64_5 == <<197, 103, 86, 22, 47, 235, 212, 39>>
PRIME_MX1 == <<249, 121, 55, 158, 145, 103, 86, 22>>
PRIME_MX2 == <<37, 223, 152, 30, 101, 28, 178, 159>>

\* h ^ (h >> r)
XorShift(h, r) == XorW(h, ShrW(h, r))

\* h ^= h >> 33; h *= PRIME64_2; h ^= h >> 29; h *= PRIME64_3; h ^= h >> 32
XXH64_avalanche(h) ==
  XorShift(MulW(XorShift(MulW(XorShift(h, 33), PRIME64_2, 8), 29),
                PRIME64_3, 8), 32)

\* h ^= h >> 37; h *= PRIME_MX1; h ^= h >> 32
XXH3_avalanche(h) == XorShift(MulW(XorShift(h, 37), PRIME_MX1, 8), 32)

\* h ^ rotl(h, 49) ^ rotl(h, 24)
XXH3_rot_mix(h) == XorW(h, XorW(RotlW(h, 49), RotlW(h, 24)))

\* h ^ ((h >> 35) + len)
XXH3_len_mix(h, len) == XorW(h, AddW(ShrW(h, 35), NatW(len, 8)))

\* h ^= rotl(h,49) ^ rotl(h,24); h *= PRIME_MX2; h ^= (h >> 35) + len;
\* h *= PRIME_MX2; h ^ (h >> 28)
XXH3_rrmxmx(h, len) ==
  XorShift(MulW(XXH3_len_mix(MulW(XXH3_rot_mix(h), PRIME_MX2, 8), len),
                PRIME_MX2, 8), 28)

\* the low half of a 128-bit word ^ its high half
XXH3_fold64(p) == XorW(SubSeq(p, 1, 8), SubSeq(p, 9, 16))

\* the 128-bit product of a and b, low half ^ high half
XXH3_mul128_fold64(a, b) == XXH3_fold64(MulW(a, b, 16))

\* mul128_fold64(read64(in) ^ read64(secret), read64(in+8) ^ read64(secret+8))
XXH3_mix16B(input, o, so) ==
  XXH3_mul128_fold64(XorW(Read(input, o, 8), Read(kSecret, so, 8)),
                     XorW(Read(input, o + 8, 8), Read(kSecret, so + 8, 8)))

XXH3_len_0 ==
  XXH64_avalanche(XorW(Read(kSecret, 56, 8), Read(kSecret, 64, 8)))

\* combined = (c1 << 16) | (c2 << 24) | c3 | (len << 8)
XXH3_len_1to3(input) ==
  LET len == Len(input)
      combined == <<input[len], len, input[1], input[(len \div 2) + 1]>>
      bitflip == XorW(Read(kSecret, 0, 4), Read(kSecret, 4, 4))
  IN  XXH64_avalanche(XorW(combined, bitflip) \o ZeroW(4))

\* input64 = input2 + (input1 << 32)
XXH3_len_4to8(input) ==
  LET len == Len(input)
      input1 == Read(input, 0, 4)
      input2 == Read(input, len - 4, 4)
      bitflip == XorW(Read(kSecret, 8, 8), Read(kSecret, 16, 8))
  IN  XXH3_rrmxmx(XorW(input2 \o input1, bitflip), len)

\* len + swap64(input_lo) + input_hi + mul128_fold64(input_lo, input_hi)
XXH3_9to16_acc(len, input_lo, input_hi) ==
  AddW(AddW(NatW(len, 8), Reverse(input_lo)),
       AddW(input_hi, XXH3_mul128_fold64(input_lo, input_hi)))

XXH3_len_9to16(input) ==
  LET len == Len(input)
      bitflip1 == XorW(Read(kSecret, 24, 8), Read(kSecret, 32, 8))
      bitflip2 == XorW(Read(kSecret, 40, 8), Read(kSecret, 48, 8))
  IN  XXH3_avalanche(
        XXH3_9to16_acc(len, XorW(Read(input, 0, 8), bitflip1),
                       XorW(Read(input, len - 8, 8), bitflip2)))

\* the two mix16B terms of round i (0..3) of the 17..128 byte hash
XXH3_mix_pair(input, i) ==
  AddW(XXH3_mix16B(input, 16 * i, 32 * i),
       XXH3_mix16B(input, Len(input) - 16 * (i + 1), 32 * i + 16))

RECURSIVE XXH3_mix_pairs(_, _, _)
\* the nested ifs of the 17..128 byte hash: rounds i down to 0
XXH3_mix_pairs(acc, input, i) ==
  IF i < 0 THEN acc
  ELSE XXH3_mix_pairs(AddW(acc, XXH3_mix_pair(input, i)), input, i - 1)

\* round 3 when len > 96, round 2 when len > 64, round 1 when len > 32
XXH3_len_17to128(input) ==
  XXH3_avalanche(
    XXH3_mix_pairs(MulW(NatW(Len(input), 8), PRIME64_1, 8), input,
                   (Len(input) - 1) \div 32))

RECURSIVE XXH3_mix_rounds(_, _, _, _, _)
\* acc += mix16B(input + 16 i, secret + 16 (i - base) + off) for i in i..n-1
XXH3_mix_rounds(acc, input, i, n, base) ==
  IF i >= n THEN acc
  ELSE XXH3_mix_rounds(
         AddW(acc, XXH3_mix16B(input, 16 * i,
                               16 * (i - base) + (IF base = 0 THEN 0 ELSE 3))),
         input, i + 1, n, base)

XXH3_len_129to240(input) ==
  LET len == Len(input)
      a0 == MulW(NatW(len, 8), PRIME64_1, 8)
      a1 == XXH3_avalanche(XXH3_mix_rounds(a0, input, 0, 8, 0))
      a2 == XXH3_mix_rounds(a1, input, 8, len \div 16, 8)
  IN  XXH3_avalanche(AddW(a2, XXH3_mix16B(input, len - 16, 136 - 17)))

\* the initial accumulators of the long hash
XXH3_INIT_ACC ==
  <<PRIME32_3, PRIME64_1, PRIME64_2, PRIME64_3,
    PRIME64_4, PRIME32_2, PRIME64_5, PRIME32_1>>

\* the product of the two 32-bit halves of a 64-bit word
XXH3_mult32to64(v) == MulW(SubSeq(v, 1, 4), SubSeq(v, 5, 8), 8)

\* lane i (0..7) of accumulate_512: every lane j adds its data to acc[j ^ 1]
\* and the product of the halves of data ^ secret to acc[j]
XXH3_lane(acc, input, o, so, i) ==
  AddW(AddW(acc[i + 1],
            Read(input, o + 8 * (IF i % 2 = 0 THEN i + 1 ELSE i - 1), 8)),
       XXH3_mult32to64(XorW(Read(input, o + 8 * i, 8),
                            Read(kSecret, so + 8 * i, 8))))

RECURSIVE XXH3_lanes(_, _, _, _, _)
\* lanes i .. 7 of accumulate_512
XXH3_lanes(acc, input, o, so, i) ==
  IF i >= 8 THEN <<>>
  ELSE <<XXH3_lane(acc, input, o, so, i)>> \o XXH3_lanes(acc, input, o, so, i + 1)

\* one stripe of 64 bytes at input + o, with the secret at so
XXH3_accumulate_512(acc, input, o, so) == XXH3_lanes(acc, input, o, so, 0)

RECURSIVE XXH3_accumulate(_, _, _, _, _)
\* stripes s .. n-1 of the block at input + o
XXH3_accumulate(acc, input, o, s, n) ==
  IF s >= n THEN acc
  ELSE LET next == XXH3_accumulate_512(acc, input, o + 64 * s, 8 * s)
       IN  IF Len(next) = 8 THEN XXH3_accumulate(next, input, o, s + 1, n)
           ELSE next

\* acc = (acc ^ (acc >> 47) ^ secret) * PRIME32_1, the secret at 192 - 64
XXH3_scramble_lane(acc, i) ==
  MulW(XorW(XorShift(acc[i + 1], 47), Read(kSecret, 128 + 8 * i, 8)),
       PRIME32_1, 8)

RECURSIVE XXH3_scramble_lanes(_, _)
\* lanes i .. 7 of the scramble
XXH3_scramble_lanes(acc, i) ==
  IF i >= 8 THEN <<>>
  ELSE <<XXH3_scramble_lane(acc, i)>> \o XXH3_scramble_lanes(acc, i + 1)

XXH3_scramble(acc) == XXH3_scramble_lanes(acc, 0)

RECURSIVE XXH3_blocks(_, _, _, _)
\* whole blocks b .. nb-1: 16 stripes of 64 bytes each, then a scramble
XXH3_blocks(acc, input, b, nb) ==
  IF b >= nb THEN acc
  ELSE LET next == XXH3_scramble(XXH3_accumulate(acc, input, 1024 * b, 0, 16))
       IN  IF Len(next) = 8 THEN XXH3_blocks(next, input, b + 1, nb) ELSE next

\* acc[2i] ^ secret, acc[2i+1] ^ secret folded, the secret at 11
XXH3_merge_lane(acc, i) ==
  XXH3_mul128_fold64(XorW(acc[2 * i + 1], Read(kSecret, 11 + 16 * i, 8)),
                     XorW(acc[2 * i + 2], Read(kSecret, 11 + 16 * i + 8, 8)))

RECURSIVE XXH3_merge_lanes(_, _, _)
\* result += merge_lane(acc, i) for the lanes i .. 3
XXH3_merge_lanes(result, acc, i) ==
  IF i >= 4 THEN result
  ELSE XXH3_merge_lanes(AddW(result, XXH3_merge_lane(acc, i)), acc, i + 1)

\* avalanche(len * PRIME64_1 + the four merged lanes)
XXH3_merge_accs(acc, len) ==
  XXH3_avalanche(XXH3_merge_lanes(MulW(NatW(len, 8), PRIME64_1, 8), acc, 0))

\* the whole blocks, the whole stripes of the last block, the last 64 bytes
XXH3_hashLong(input) ==
  LET len == Len(input)
      nb_blocks == (len - 1) \div 1024
      nb_stripes == ((len - 1) - 1024 * nb_blocks) \div 64
  IN  XXH3_merge_accs(
        XXH3_accumulate_512(
          XXH3_accumulate(XXH3_blocks(XXH3_INIT_ACC, input, 0, nb_blocks),
                          input, 1024 * nb_blocks, 0, nb_stripes),
          input, len - 64, 192 - 64 - 7),
        len)

\* xxh3_64(input): the digest by length class
xxh3_64(input) ==
  LET len == Len(input)
  IN  IF len = 0 THEN XXH3_len_0
      ELSE IF len <= 3 THEN XXH3_len_1to3(input)
      ELSE IF len <= 8 THEN XXH3_len_4to8(input)
      ELSE IF len <= 16 THEN XXH3_len_9to16(input)
      ELSE IF len <= 128 THEN XXH3_len_17to128(input)
      ELSE IF len <= 240 THEN XXH3_len_129to240(input)
      ELSE XXH3_hashLong(input)

\* ------------------------------------------------------------------------
\* The hardware paths' hashes (lib.rs 121-206), before the modulo
\* ------------------------------------------------------------------------

\* key.chunks(size).count()
NumChunks(key, size) == (Len(key) + size - 1) \div size

\* chunk c (from 0) of key.chunks(size), copied into a zeroed [0u8; size]
\* when it is short (lib.rs 127-133, 156-162, 185-191)
PaddedChunk(key, size, c) ==
  LET from == size * c
      n == IF Len(key) - from < size THEN Len(key) - from ELSE size
  IN  Read(key, from, n) \o ZeroW(size - n)

RECURSIVE reduce_add_epi32(_, _)
\* _mm512_reduce_add_epi32: the wrapping sum of the 32-bit lanes from lane i
reduce_add_epi32(vec, i) ==
  IF 4 * i >= Len(vec) THEN ZeroW(4)
  ELSE AddW(Read(vec, 4 * i, 4), reduce_add_epi32(vec, i + 1))

RECURSIVE avx512_hash(_, _, _)
\* for chunk in key.chunks(64) { hash = hash.wrapping_add(reduce_add(vec)) }
avx512_hash(hash, key, c) ==
  IF c >= NumChunks(key, 64) THEN hash
  ELSE LET next == AddW(hash, reduce_add_epi32(PaddedChunk(key, 64, c), 0))
       IN  IF Len(next) = 4 THEN avx512_hash(next, key, c + 1) ELSE next

RECURSIVE avx2_hash(_, _, _)
\* for chunk in key.chunks(32) { hash = hash.wrapping_add(extract_epi32::<0>(vec)) }
avx2_hash(hash, key, c) ==
  IF c >= NumChunks(key, 32) THEN hash
  ELSE LET next == AddW(hash, Read(PaddedChunk(key, 32, c), 0, 4))
       IN  IF Len(next) = 4 THEN avx2_hash(next, key, c + 1) ELSE next

\* the AES S-box
SBox ==
  <<  99, 124, 119, 123, 242, 107, 111, 197,  48,   1, 103,  43, 254, 215, 171, 118,
     202, 130, 201, 125, 250,  89,  71, 240, 173, 212, 162, 175, 156, 164, 114, 192,
     183, 253, 147,  38,  54,  63, 247, 204,  52, 165, 229, 241, 113, 216,  49,  21,
       4, 199,  35, 195,  24, 150,   5, 154,   7,  18, 128, 226, 235,  39, 178, 117,
       9, 131,  44,  26,  27, 110,  90, 160,  82,  59, 214, 179,  41, 227,  47, 132,
      83, 209,   0, 237,  32, 252, 177,  91, 106, 203, 190,  57,  74,  76,  88, 207,
     208, 239, 170, 251,  67,  77,  51, 133,  69, 249,   2, 127,  80,  60, 159, 168,
      81, 163,  64, 143, 146, 157,  56, 245, 188, 182, 218,  33,  16, 255, 243, 210,
     205,  12,  19, 236,  95, 151,  68,  23, 196, 167, 126,  61, 100,  93,  25, 115,
      96, 129,  79, 220,  34,  42, 144, 136,  70, 238, 184,  20, 222,  94,  11, 219,
     224,  50,  58,  10,  73,   6,  36,  92, 194, 211, 172,  98, 145, 149, 228, 121,
     231, 200,  55, 109, 141, 213,  78, 169, 108,  86, 244, 234, 101, 122, 174,   8,
     186, 120,  37,  46,  28, 166, 180, 198, 232, 221, 116,  31,  75, 189, 139, 138,
     112,  62, 181, 102,  72,   3, 246,  14,  97,  53,  87, 185, 134, 193,  29, 158,
     225, 248, 152,  17, 105, 217, 142, 148, 155,  30, 135, 233, 206,  85,  40, 223,
     140, 161, 137,  13, 191, 230,  66, 104,  65, 153,  45,  15, 176,  84, 187,  22 >>

\* multiplication by x in GF(2^8) modulo x^8 + x^4 + x^3 + x + 1
XTime(a) == IF a >= 128 THEN Xor8((2 * a) % 256, 27) ELSE 2 * a

\* SubBytes(ShiftRows(state)) at byte i (0..15), column-major state
AesSubShift(state, i) == SBox[state[((i + 4 * (i % 4)) % 16) + 1] + 1]

\* row r of MixColumns on the column a (4 bytes): 2 a[r] ^ 3 a[r+1] ^ a[r+2] ^ a[r+3]
AesMix(a, r) ==
  LET a0 == a[r + 1]
      a1 == a[((r + 1) % 4) + 1]
      a2 == a[((r + 2) % 4) + 1]
      a3 == a[((r + 3) % 4) + 1]
  IN  Xor8(Xor8(XTime(a0), Xor8(XTime(a1), a1)), Xor8(a2, a3))

RECURSIVE AesRound(_, _, _)
AesRound(sub, round_key, i) ==
  IF i >= 16 THEN <<>>
  ELSE <<Xor8(AesMix(Read(sub, 4 * (i \div 4), 4), i % 4), round_key[i + 1])>>
       \o AesRound(sub, round_key, i + 1)

\* _mm_aesenc_si128: MixColumns(SubBytes(ShiftRows(state))) ^ round_key
aesenc_si128(state, round_key) ==
  LET sub == << AesSubShift(state, 0), AesSubShift(state, 1), AesSubShift(state, 2),
                AesSubShift(state, 3), AesSubShift(state, 4), AesSubShift(state, 5),
                AesSubShift(state, 6), AesSubShift(state, 7), AesSubShift(state, 8),
                AesSubShift(state, 9), AesSubShift(state, 10), AesSubShift(state, 11),
                AesSubShift(state, 12), AesSubShift(state, 13), AesSubShift(state, 14),
                AesSubShift(state, 15) >>
  IN  AesRound(sub, round_key, 0)

RECURSIVE aesni_hash(_, _, _)
\* for chunk in key.chunks(16) { hash = _mm_aesenc_si128(hash, data) }
aesni_hash(hash, key, c) ==
  IF c >= NumChunks(key, 16) THEN hash
  ELSE LET next == aesenc_si128(hash, PaddedChunk(key, 16, c))
       IN  IF Len(next) = 16 THEN aesni_hash(next, key, c + 1) ELSE next

\* ------------------------------------------------------------------------
\* Types and configurations (lib.rs 6-59)
\* ------------------------------------------------------------------------

\* enum ShardAlgorithm
ShardAlgorithm == {"Avx512", "Avx2", "AesNi", "Fnv1a", "Xxh3"}

\* the target features the code tests, in cfg(target_feature) and in
\* is_x86_feature_detected!
Features == {"avx512f", "avx2", "aes"}

\* usize::MAX, the end of the default large-key tier.  Range ends are only
\* compared with key lengths, all far below this value.
USIZE_MAX == 2147483647

\* ShardTier { size_range: lo..=hi, algorithms }
ShardTier(lo, hi, algorithms) ==
  [size_range |-> [start |-> lo, end |-> hi], algorithms |-> algorithms]

\* ShardConfig { tiers, default_algorithms }
ShardConfig(tiers, default_algorithms) ==
  [tiers |-> tiers, default_algorithms |-> default_algorithms]

\* the default configuration had its small tier listed Xxh3 before Fnv1a
ShardConfig_xxh3_first ==
  ShardConfig(
    << ShardTier(0, 16, <<"Avx512", "Avx2", "AesNi", "Xxh3", "Fnv1a">>),
       ShardTier(17, USIZE_MAX, <<"Avx512", "Avx2", "AesNi", "Xxh3", "Fnv1a">>) >>,
    <<"Xxh3">>)

\* impl Default for ShardConfig
ShardConfig_default ==
  ShardConfig(
    << ShardTier(0, 16, <<"Avx512", "Avx2", "AesNi", "Fnv1a", "Xxh3">>),
       ShardTier(17, USIZE_MAX, <<"Avx512", "Avx2", "AesNi", "Xxh3", "Fnv1a">>) >>,
    <<"Xxh3">>)

\* FastShard { shard_count, config }
FastShard(shard_count, config) == [shard_count |-> shard_count, config |-> config]

\* FastShard::new
new(shard_count) == FastShard(shard_count, ShardConfig_default)

\* FastShard::with_config
with_config(shard_count, config) == FastShard(shard_count, config)

\* ------------------------------------------------------------------------
\* Inputs of the model
\* ------------------------------------------------------------------------

\* the longest key built from KeyBytes
MaxKeyLen == 2
\* shard counts 0 .. MaxShards, besides the counts of the tests and the example
MaxShards == 3
\* the largest range end of the adjacent-tier configurations
MaxTierEnd == 2

\* the most tiers of a generated configuration
MaxTiers == 2

\* the longest generated preference list
MaxPrefLen == 2
\* byte values of the generic keys: the tests' zero byte and an ASCII letter
KeyBytes == {0, 97}

RECURSIVE Zeros(_)
\* vec![0u8; n]
Zeros(n) ==
  IF n = 0 THEN <<>>
  ELSE IF n % 2 = 0 THEN LET half == Zeros(n \div 2) IN half \o half
       ELSE <<0>> \o Zeros(n - 1)

\* b"small key" (examples/custom_config.rs 41)
SmallKey == <<115, 109, 97, 108, 108, 32, 107, 101, 121>>

\* b"small" (lib.rs 245)
TestSmallKey == <<115, 109, 97, 108, 108>>

\* keys of the tests and of the example: lengths 5, 9, 16, 17, 100, 2000
ScenarioKeys ==
  {SmallKey, TestSmallKey, Zeros(16), Zeros(17), Zeros(100), Zeros(2000)}

GenericKeys == UNION {[1..n -> KeyBytes] : n \in 0..MaxKeyLen}

Keys == GenericKeys \cup ScenarioKeys

RECURSIVE SetToSeq(_)
SetToSeq(S) ==
  IF S = {} THEN <<>>
  ELSE LET x == CHOOSE y \in S : TRUE IN <<x>> \o SetToSeq(S \ {x})

\* the keys in a fixed order: the state names a key by its place in KeySeq
KeySeq == SetToSeq(Keys) @@ <<>>
KeyIds == 1..Len(KeySeq)

\* u32 shard counts: the small ones, 16 (lib.rs 243, 255) and 1024 (example)
ShardCounts == (0..MaxShards) \cup {16, 1024}

\* two tiers [0,a] -> {A}, [a+1,b] -> {B} and the default {D}
AdjacentConfig(a, b, A, B, D) ==
  ShardConfig(<<ShardTier(0, a, <<A>>), ShardTier(a + 1, b, <<B>>)>>, <<D>>)

\* tests::test_custom_config (lib.rs 229-241)
TestCustomConfig == AdjacentConfig(16, 1024, "Fnv1a", "Xxh3", "Xxh3")

\* examples/custom_config.rs 5-37
ExampleConfig ==
  ShardConfig(
    << ShardTier(0, 128, <<"Avx512", "AesNi", "Fnv1a">>),
       ShardTier(129, 1024, <<"Avx512", "Avx2", "Xxh3">>),
       ShardTier(1025, 4096, <<"Avx512", "AesNi", "Xxh3">>) >>,
    <<"Xxh3", "Fnv1a">>)

\* benches/hash_comparison.rs 4-14: create_single_algo_config
SingleAlgoConfig(algo) ==
  ShardConfig(<<ShardTier(0, USIZE_MAX, <<algo>>)>>, <<algo>>)

\* a caller's literal whose lists are the three hardware algorithms only
HardwareOnlyConfig ==
  ShardConfig(<<ShardTier(0, 16, <<"Avx512", "Avx2", "AesNi">>)>>,
              <<"Avx512", "Avx2", "AesNi">>)

\* callers' literals with an empty algorithms list: in a tier, as the default
EmptyTierConfig == ShardConfig(<<ShardTier(0, 16, <<>>)>>, <<"Xxh3">>)
EmptyDefaultConfig == ShardConfig(<<ShardTier(0, 16, <<"Fnv1a">>)>>, <<>>)

AlwaysAvailable == {"Fnv1a", "Xxh3"}

AdjacentConfigs ==
  {AdjacentConfig(a, b, A, B, D) :
     a \in 0..(MaxTierEnd - 1), b \in 1..MaxTierEnd,
     A \in AlwaysAvailable, B \in AlwaysAvailable, D \in AlwaysAvailable}

\* the configurations handed to with_config
Configs ==
  {ShardConfig_default, TestCustomConfig, ExampleConfig, HardwareOnlyConfig,
   EmptyTierConfig, EmptyDefaultConfig}
  \cup {SingleAlgoConfig(algo) : algo \in ShardAlgorithm}
  \cup {c \in AdjacentConfigs :
          c.tiers[1].size_range.end < c.tiers[2].size_range.end}

\* range bounds of the generated tiers: every lo..=hi over them, the empty
\* ranges (lo > hi) and the overlapping ones included
TierBounds == 0..MaxTierEnd

\* the list of the tier at place i of a generated configuration: one
\* algorithm, another at every place, so that a list names its tier
AlgorithmSeq == <<"Fnv1a", "Xxh3", "Avx2", "AesNi", "Avx512">>
TierList(i) == <<AlgorithmSeq[((i - 1) % Len(AlgorithmSeq)) + 1]>>

RECURSIVE TierSeqs(_)
\* every Vec<ShardTier> of n tiers over TierBounds
TierSeqs(n) ==
  IF n = 0 THEN {<<>>}
  ELSE {Append(t, ShardTier(lo, hi, TierList(n))) :
          t \in TierSeqs(n - 1), lo \in TierBounds, hi \in TierBounds}

\* configurations of up to MaxTiers tiers with a default list of their own
TierConfigs ==
  {ShardConfig(t, <<"Xxh3", "Fnv1a">>) :
     t \in UNION {TierSeqs(n) : n \in 0..MaxTiers}}

\* every preference list of up to MaxPrefLen algorithms, the empty one included
PrefLists == UNION {[1..n -> ShardAlgorithm] : n \in 0..MaxPrefLen}

\* configurations without tiers: the default list is the list of every size
PrefConfigs == {ShardConfig(<<>>, P) : P \in PrefLists}

\* the digests of the modelled keys, each computed once (@@ <<>> leaves the
\* function as it is and has it tabulated)
xxh3_memo == [k \in Keys |-> xxh3_64(k)] @@ <<>>
fnv1a_memo == [k \in Keys |-> fnv1a_64(k)] @@ <<>>
avx512_memo == [k \in Keys |-> avx512_hash(ZeroW(4), k, 0)] @@ <<>>
avx2_memo == [k \in Keys |-> avx2_hash(ZeroW(4), k, 0)] @@ <<>>
aesni_memo == [k \in Keys |-> aesni_hash(ZeroW(16), k, 0)] @@ <<>>

\* xxh3_64(key)
xxh3_digest(key) == IF key \in Keys THEN xxh3_memo[key] ELSE xxh3_64(key)
\* hasher.write(key); hasher.finish()
fnv1a_digest(key) == IF key \in Keys THEN fnv1a_memo[key] ELSE fnv1a_64(key)
\* hash after the loop over key.chunks(64)
avx512_digest(key) ==
  IF key \in Keys THEN avx512_memo[key] ELSE avx512_hash(ZeroW(4), key, 0)
\* hash after the loop over key.chunks(32)
avx2_digest(key) ==
  IF key \in Keys THEN avx2_memo[key] ELSE avx2_hash(ZeroW(4), key, 0)
\* hash after the loop over key.chunks(16)
aesni_digest(key) ==
  IF key \in Keys THEN aesni_memo[key] ELSE aesni_hash(ZeroW(16), key, 0)

\* ------------------------------------------------------------------------
\* State
\* ------------------------------------------------------------------------

VARIABLES
  target_features,    \* the features enabled at build time (cfg(target_feature))
  detected_features,  \* the features the CPU reports to the runtime detection
  engines,            \* the FastShard values constructed so far
  calls               \* the latest completed shard() call, on record

vars == <<target_features, detected_features, engines, calls>>

\* ------------------------------------------------------------------------
\* Selection and dispatch (lib.rs 79-119)
\* ------------------------------------------------------------------------

\* the arms as they would read without their cfg attributes: every arm returns
ArmReturns_unconditional(features, algo) == TRUE

\* the arm of the match for algo returns: the cfg attribute keeps the return
\* statement of a hardware arm only when the feature is a target feature
ArmReturns(features, algo) ==
  CASE algo = "Avx512" -> "avx512f" \in features
    [] algo = "Avx2"   -> "avx2" \in features
    [] algo = "AesNi"  -> "aes" \in features
    [] algo = "Fnv1a"  -> TRUE
    [] algo = "Xxh3"   -> TRUE

RECURSIVE available_from(_, _, _)
\* the loop of get_available_algorithm from entry i, in a build with features
available_from(features, algorithms, i) ==
  IF i > Len(algorithms) THEN "Xxh3"
  ELSE IF ArmReturns(features, algorithms[i]) THEN algorithms[i]
       ELSE available_from(features, algorithms, i + 1)

\* FastShard::get_available_algorithm
get_available_algorithm(algorithms) ==
  available_from(target_features, algorithms, 1)

\* Range::contains, the range read as lo..hi: the end excluded
contains_exclusive(range, size) == range.start <= size /\ size < range.end

\* get_algorithm_for_size without its loop over the tiers
tier_from_default(config, size, i) == config.default_algorithms

\* RangeInclusive::contains
contains(range, size) == range.start <= size /\ size <= range.end

RECURSIVE tier_from(_, _, _)
\* the loop of get_algorithm_for_size from tier i: the algorithms of the first
\* tier whose range contains size, default_algorithms when the loop ends
tier_from(config, size, i) ==
  IF i > Len(config.tiers) THEN config.default_algorithms
  ELSE IF contains(config.tiers[i].size_range, size)
       THEN config.tiers[i].algorithms
       ELSE tier_from(config, size, i + 1)

\* the list get_algorithm_for_size hands to get_available_algorithm
algorithms_for_size(self, size) == tier_from(self.config, size, 1)

\* FastShard::get_algorithm_for_size
get_algorithm_for_size(self, size) ==
  get_available_algorithm(algorithms_for_size(self, size))

\* the panic of % on a zero divisor ("attempt to calculate the remainder with
\* a divisor of zero"): the one outcome of shard that is no u32
DivideByZero == -1

\* hash % self.shard_count: the remainder, or the panic when shard_count is 0
Rem(hash, shard_count) ==
  IF shard_count = 0 THEN DivideByZero ELSE RemW(hash, shard_count)

\* FastShard::shard_with_xxh3
shard_with_xxh3(self, key) == Rem(xxh3_digest(key), self.shard_count)

\* FastShard::shard_with_fnv1a
shard_with_fnv1a(self, key) == Rem(fnv1a_digest(key), self.shard_count)

\* is_x86_feature_detected!(feature): the macro expands to
\* cfg!(target_feature = feature) || <the CPU's report>, so in a build with
\* the feature it is true without asking the CPU
is_x86_feature_detected(feature) ==
  feature \in target_features \/ feature \in detected_features

\* FastShard::shard_with_avx512: the variant compiled with the feature probes
\* and takes the fast path, the variant compiled without it is shard_with_xxh3
shard_with_avx512(self, key) ==
  IF "avx512f" \in target_features
  THEN IF is_x86_feature_detected("avx512f")
       THEN Rem(avx512_digest(key), self.shard_count)
       ELSE shard_with_xxh3(self, key)
  ELSE shard_with_xxh3(self, key)

\* FastShard::shard_with_avx2, both cfg variants
shard_with_avx2(self, key) ==
  IF "avx2" \in target_features
  THEN IF is_x86_feature_detected("avx2")
       THEN Rem(avx2_digest(key), self.shard_count)
       ELSE shard_with_xxh3(self, key)
  ELSE shard_with_xxh3(self, key)

\* FastShard::shard_with_aesni, both cfg variants: the result is lane 0 of hash
shard_with_aesni(self, key) ==
  IF "aes" \in target_features
  THEN IF is_x86_feature_detected("aes")
       THEN Rem(Read(aesni_digest(key), 0, 4), self.shard_count)
       ELSE shard_with_xxh3(self, key)
  ELSE shard_with_xxh3(self, key)

\* the match of shard on the selected algorithm
dispatch(self, algorithm, key) ==
  CASE algorithm = "Avx512" -> shard_with_avx512(self, key)
    [] algorithm = "Avx2"   -> shard_with_avx2(self, key)
    [] algorithm = "AesNi"  -> shard_with_aesni(self, key)
    [] algorithm = "Fnv1a"  -> shard_with_fnv1a(self, key)
    [] algorithm = "Xxh3"   -> shard_with_xxh3(self, key)

\* FastShard::shard
shard(self, key) == dispatch(self, get_algorithm_for_size(self, Len(key)), key)

\* ------------------------------------------------------------------------
\* The state machine
\* ------------------------------------------------------------------------

\* what a completed call e.shard(key) leaves to be observed: the engine as it
\* was, the key (by its place in KeySeq), the list and the algorithm selected
\* for the key's length, the result
CallRecord(e, k) ==
  LET self == engines[e]
      key == KeySeq[k]
  IN  [engine |-> e, self |-> self, key |-> k,
       algorithms |-> algorithms_for_size(self, Len(key)),
       algorithm |-> get_algorithm_for_size(self, Len(key)),
       result |-> shard(self, key)]

\* the sets cfg(target_feature) can report for the three features: rustc
\* enables avx2 with avx512f, and aes stands apart from both
TargetFeatureSets ==
  {F \in SUBSET Features : "avx512f" \in F => "avx2" \in F}

\* the build and the machine it runs on: any build, and any CPU that has the
\* build's target features (it may have more). On a CPU without them the
\* binary is outside what it was compiled for: its vector instructions fault
InitPlatform ==
  /\ target_features \in TargetFeatureSets
  /\ detected_features \in SUBSET Features
  /\ target_features \subseteq detected_features

Init ==
  /\ InitPlatform
  /\ engines = <<>>
  /\ calls = <<>>

\* let e = FastShard::new(shard_count)
New(shard_count) ==
  /\ engines' = Append(engines, new(shard_count))
  /\ UNCHANGED <<target_features, detected_features, calls>>

\* let e = FastShard::with_config(shard_count, config)
WithConfig(shard_count, config) ==
  /\ engines' = Append(engines, with_config(shard_count, config))
  /\ UNCHANGED <<target_features, detected_features, calls>>

\* engines[e].shard(KeySeq[k]) through &self; the call is the one on record
Shard(e, k) ==
  /\ e \in DOMAIN engines
  /\ calls' = <<CallRecord(e, k)>>
  /\ UNCHANGED <<target_features, detected_features, engines>>

\* one engine, built either way over any configuration, called with any key
Next ==
  \/ \E n \in ShardCounts : engines = <<>> /\ New(n)
  \/ \E n \in ShardCounts, c \in Configs : engines = <<>> /\ WithConfig(n, c)
  \/ \E k \in KeyIds : Shard(1, k)

Spec == Init /\ [][Next]_vars

\* get_algorithm_for_size over the generated tiers: a build without target
\* features, one engine over any configuration of TierConfigs, any key length
InitTier ==
  /\ target_features = {}
  /\ detected_features = {}
  /\ engines = <<>>
  /\ calls = <<>>

NextTier ==
  \/ \E c \in TierConfigs : engines = <<>> /\ WithConfig(16, c)
  \/ \E k \in KeyIds : Shard(1, k)

SpecTier == InitTier /\ [][NextTier]_vars

\* get_available_algorithm over the generated lists: any build, one engine
\* whose list of every size is any list of PrefLists
NextSelect ==
  \/ \E c \in PrefConfigs : engines = <<>> /\ WithConfig(16, c)
  \/ \E k \in KeyIds : Shard(1, k)

SpecSelect == Init /\ [][NextSelect]_vars

\* ------------------------------------------------------------------------
\* The claims
\* ------------------------------------------------------------------------

\* the least member of a set of numbers
Least(S) == CHOOSE x \in S : \A y \in S : x <= y

\* the hardware algorithms and the feature each one is gated by
HardwareAlgorithms == {"Avx512", "Avx2", "AesNi"}
FeatureOf(algo) ==
  CASE algo = "Avx512" -> "avx512f"
    [] algo = "Avx2"   -> "avx2"
    [] algo = "AesNi"  -> "aes"

\* the 64-bit digest of key by an always-available algorithm
DigestOf(algo, key) ==
  IF algo = "Fnv1a" THEN fnv1a_digest(key) ELSE xxh3_digest(key)

\* C1: for every engine returned by new or with_config and every key, shard
\* returns an index i with 0 <= i < shard_count, and no call fails or divides
\* by zero. (The code builds an engine over shard_count = 0 and its shard
\* panics on the remainder.)
C1_RangeBound ==
  \A i \in DOMAIN calls :
    calls[i].result \in 0..(calls[i].self.shard_count - 1)

\* C2: construction with shard_count = 0 is rejected, so no engine with
\* shard_count = 0 ever exists and no shard call reaches a modulo by zero.
\* (new and with_config store any shard_count.)
C2_ZeroRejected ==
  /\ \A e \in DOMAIN engines : engines[e].shard_count # 0
  /\ \A i \in DOMAIN calls : calls[i].result # DivideByZero

\* C3: a configuration with an empty algorithms list, in a tier or as the
\* default, is rejected at construction: no engine is built over one and shard
\* never runs selection on an empty list. (with_config stores any config.)
C3_EmptyRejected ==
  /\ \A e \in DOMAIN engines :
       /\ engines[e].config.default_algorithms # <<>>
       /\ \A t \in DOMAIN engines[e].config.tiers :
            engines[e].config.tiers[t].algorithms # <<>>
  /\ \A i \in DOMAIN calls : calls[i].algorithms # <<>>

\* the tiers of config, by place, whose range lo..=hi has lo <= s <= hi
MatchingTiers(config, s) ==
  {t \in DOMAIN config.tiers :
     /\ config.tiers[t].size_range.start <= s
     /\ s <= config.tiers[t].size_range.end}

\* C4: for every configuration and every key length s, the preference list
\* used is the algorithms list of the first tier, in insertion order, with
\* lo <= s <= hi; default_algorithms when no tier contains s.
C4_FirstMatchingTier ==
  \A i \in DOMAIN calls :
    LET config == calls[i].self.config
        M == MatchingTiers(config, Len(KeySeq[calls[i].key]))
    IN  calls[i].algorithms =
          IF M = {} THEN config.default_algorithms
          ELSE config.tiers[Least(M)].algorithms

\* C4's case: two tiers contain the length, the later one is the narrower, the
\* length is the end of the earlier one, and the earlier tier's list is used
C4_EarlierTierWins ==
  \E i \in DOMAIN calls :
    LET tiers == calls[i].self.config.tiers
        s == Len(KeySeq[calls[i].key])
    IN  /\ Len(tiers) = 2
        /\ MatchingTiers(calls[i].self.config, s) = {1, 2}
        /\ tiers[1].size_range.start < tiers[2].size_range.start
        /\ tiers[1].size_range.end = tiers[2].size_range.end
        /\ s = tiers[1].size_range.end
        /\ tiers[1].algorithms # tiers[2].algorithms
        /\ calls[i].algorithms = tiers[1].algorithms

\* an entry is available: Fnv1a and Xxh3 always, a hardware algorithm when its
\* capability is present
Available(algo) ==
  \/ algo \in {"Fnv1a", "Xxh3"}
  \/ algo \in HardwareAlgorithms /\ FeatureOf(algo) \in target_features

\* C5: for every preference list P and every set of capabilities, selection
\* returns the first entry of P that is available, Xxh3 when none is; no entry
\* that follows an available entry is selected.
C5_FirstAvailable ==
  \A i \in DOMAIN calls :
    LET P == calls[i].algorithms
        A == {j \in DOMAIN P : Available(P[j])}
    IN  calls[i].algorithm = IF A = {} THEN "Xxh3" ELSE P[Least(A)]

\* C5's case: the first entry is a hardware algorithm whose capability is
\* absent, the second is available and is not Xxh3, and it is the one selected
C5_SkipsUnavailable ==
  \E i \in DOMAIN calls :
    LET P == calls[i].algorithms
    IN  /\ Len(P) = 2
        /\ P[1] \in HardwareAlgorithms /\ ~Available(P[1])
        /\ P[2] # "Xxh3" /\ Available(P[2])
        /\ calls[i].algorithm = P[2]

\* C6: on a platform with none of the hardware capabilities, an engine whose
\* applicable list is {Avx512, Avx2, AesNi} returns, for every key, an
\* in-range index equal to XXH3-64(key) mod shard_count. (With shard_count = 0,
\* which construction accepts, the call panics: there is no in-range index.)
C6_FallbackInRange ==
  \A i \in DOMAIN calls :
    (/\ target_features = {}
     /\ detected_features = {}
     /\ calls[i].algorithms = <<"Avx512", "Avx2", "AesNi">>)
    => /\ calls[i].result \in 0..(calls[i].self.shard_count - 1)
       /\ calls[i].result =
            RemW(xxh3_digest(KeySeq[calls[i].key]), calls[i].self.shard_count)

\* config is two adjacent tiers [0,a] -> {A}, [a+1,b] -> {B} with a default
\* {D}, the three of them always-available algorithms
IsAdjacent(config) ==
  /\ Len(config.tiers) = 2
  /\ config.tiers[1].size_range.start = 0
  /\ config.tiers[2].size_range.start = config.tiers[1].size_range.end + 1
  /\ config.tiers[2].size_range.end >= config.tiers[2].size_range.start
  /\ \A l \in {config.tiers[1].algorithms, config.tiers[2].algorithms,
               config.default_algorithms} :
       Len(l) = 1 /\ l[1] \in {"Fnv1a", "Xxh3"}

\* C7: over two adjacent tiers [0,a] -> {A}, [a+1,b] -> {B} and the default
\* {D}, a key of length a gets digest_A(key) mod shard_count, a key of length
\* a+1 gets digest_B(key) mod shard_count, a key longer than b gets
\* digest_D(key) mod shard_count (mod as the code's %).
C7_TierBoundary ==
  \A i \in DOMAIN calls :
    LET self == calls[i].self
        key == KeySeq[calls[i].key]
        a == self.config.tiers[1].size_range.end
        b == self.config.tiers[2].size_range.end
        A == self.config.tiers[1].algorithms[1]
        B == self.config.tiers[2].algorithms[1]
        D == self.config.default_algorithms[1]
    IN  IsAdjacent(self.config) =>
          /\ Len(key) = a =>
               calls[i].result = Rem(DigestOf(A, key), self.shard_count)
          /\ Len(key) = a + 1 =>
               calls[i].result = Rem(DigestOf(B, key), self.shard_count)
          /\ Len(key) > b =>
               calls[i].result = Rem(DigestOf(D, key), self.shard_count)

\* C7's case, the instance of tests::test_custom_config: 16 shards, tiers
\* [0,16] -> {Fnv1a}, [17,1024] -> {Xxh3}, default {Xxh3}, the key of 16 zero
\* bytes: FNV-1a-64 of it is 0x88201fb960ff6465, 5 mod 16
C7_TestCustomConfig ==
  \E i \in DOMAIN calls :
    /\ calls[i].self = with_config(16, TestCustomConfig)
    /\ KeySeq[calls[i].key] = Zeros(16)
    /\ calls[i].algorithm = "Fnv1a"
    /\ calls[i].result = 5

\* a call on the default engine new(1024) with the key "small key"
IsSmallKeyCall(call) ==
  call.self = new(1024) /\ KeySeq[call.key] = SmallKey

\* C9, as the code has it: for new(1024) and the 9-byte key "small key" the
\* tier [0,16] applies and the result is in [0,1024); when no hardware
\* capability is available the algorithm is Fnv1a, which the tier lists before
\* Xxh3, and the index is FNV-1a-64 of the 9 bytes mod 1024.
C9_SmallKeyFnv1a ==
  \A i \in DOMAIN calls :
    IsSmallKeyCall(calls[i]) =>
      /\ calls[i].algorithms = ShardConfig_default.tiers[1].algorithms
      /\ calls[i].result \in 0..1023
      /\ target_features = {} =>
           /\ calls[i].algorithm = "Fnv1a"
           /\ calls[i].result = RemW(fnv1a_digest(SmallKey), 1024)

\* C9's case: no capability in the build or on the machine; FNV-1a-64 of
\* "small key" is 0x0dadaf3aee5c4723, 803 mod 1024
C9_SmallKeyNoHardware ==
  \E i \in DOMAIN calls :
    /\ IsSmallKeyCall(calls[i])
    /\ target_features = {}
    /\ detected_features = {}
    /\ calls[i].result = 803

\* C9 as stated: for new(1024) and "small key", when no hardware capability is
\* available the returned index is XXH3-64 of the 9 bytes mod 1024.
C9_SmallKeyXxh3 ==
  \A i \in DOMAIN calls :
    (IsSmallKeyCall(calls[i]) /\ target_features = {})
    => calls[i].result = RemW(xxh3_digest(SmallKey), 1024)

\* a call whose selected algorithm is a hardware one ran the fast path
\* compiled for it: the feature is a target feature, the probe held, and the
\* result is the fast path's (the XXH3 branch behind the probe is never taken)
HardwareFastPath(call) ==
  LET self == call.self
      key == KeySeq[call.key]
  IN  /\ FeatureOf(call.algorithm) \in target_features
      /\ is_x86_feature_detected(FeatureOf(call.algorithm))
      /\ call.result =
           CASE call.algorithm = "Avx512" ->
                  Rem(avx512_digest(key), self.shard_count)
             [] call.algorithm = "Avx2" ->
                  Rem(avx2_digest(key), self.shard_count)
             [] call.algorithm = "AesNi" ->
                  Rem(Read(aesni_digest(key), 0, 4), self.shard_count)

\* selection and dispatch agree on the build: every call that selected a
\* hardware algorithm ran its fast path
HardwareCallsUseFastPath ==
  \A i \in DOMAIN calls :
    calls[i].algorithm \in HardwareAlgorithms => HardwareFastPath(calls[i])

\* new(1024) with the key "small key" in the builds that select each hardware
\* algorithm: the fast paths give 600 (Avx512), 371 (Avx2), 528 (AesNi)
SmallKeyFastPaths ==
  \E i \in DOMAIN calls :
    /\ IsSmallKeyCall(calls[i])
    /\ \/ calls[i].algorithm = "Avx512" /\ calls[i].result = 600
       \/ calls[i].algorithm = "Avx2" /\ calls[i].result = 371
       \/ calls[i].algorithm = "AesNi" /\ calls[i].result = 528

====
